---- MODULE Spec2Model ----
(***************************************************************************)
(* Model of DYMS-Lang/setup.py: the packaging descriptor of the DYMS       *)
(* Pygments lexer plugin, together with the environment that reads it      *)
(* (package index, installer, site-packages, entry-point lookup).          *)
(*                                                                         *)
(* Texts that the tooling parses (requirement specifiers, entry-point      *)
(* lines, versions, module names) are sequences of one-character strings,  *)
(* so that parsing is computed and not assumed.  Texts that are only       *)
(* carried along (description, author, classifiers) are plain strings.     *)
(***************************************************************************)
EXTENDS Integers, Sequences, FiniteSets, TLC

(***************************************************************************)
(* Bounds of the environment                                               *)
(***************************************************************************)
\* Pygments releases on the package index are major.minor with
\* major in 1..MaxMajor and minor in 0..MaxMinor.
MaxMajor == 2
MaxMinor == 1

(***************************************************************************)
(* Character-level helpers                                                 *)
(***************************************************************************)
Digits == <<"0", "1", "2", "3", "4", "5", "6", "7", "8", "9">>
UpperAlpha == <<"A", "B", "C", "D", "E", "F", "G", "H", "I", "J", "K", "L", "M",
                "N", "O", "P", "Q", "R", "S", "T", "U", "V", "W", "X", "Y", "Z">>
LowerAlpha == <<"a", "b", "c", "d", "e", "f", "g", "h", "i", "j", "k", "l", "m",
                "n", "o", "p", "q", "r", "s", "t", "u", "v", "w", "x", "y", "z">>
OpChars == {"<", ">", "=", "!", "~"}

\* The least index of s at which a character of the set cs stands, 0 if none.
IndexOfAny(s, cs) ==
  IF \E i \in 1..Len(s) : s[i] \in cs
  THEN CHOOSE i \in 1..Len(s) : s[i] \in cs /\ \A j \in 1..(i-1) : s[j] \notin cs
  ELSE 0

\* str.strip(): s without its leading and trailing blanks.
Strip(s) ==
  IF \A i \in 1..Len(s) : s[i] = " "
  THEN <<>>
  ELSE LET a == CHOOSE i \in 1..Len(s) : s[i] # " " /\ \A j \in 1..(i-1) : s[j] = " "
           b == CHOOSE i \in 1..Len(s) : s[i] # " " /\ \A j \in (i+1)..Len(s) : s[j] = " "
       IN SubSeq(s, a, b)

\* str.split(c): the pieces of s between the occurrences of c.
RECURSIVE SplitOn(_, _)
SplitOn(s, c) ==
  LET i == IndexOfAny(s, {c})
  IN IF i = 0 THEN <<s>>
     ELSE <<SubSeq(s, 1, i-1)>> \o SplitOn(SubSeq(s, i+1, Len(s)), c)

\* c.join(parts)
RECURSIVE Join(_, _)
Join(parts, c) ==
  IF parts = <<>> THEN <<>>
  ELSE IF Len(parts) = 1 THEN parts[1]
  ELSE parts[1] \o <<c>> \o Join(Tail(parts), c)

IsDigit(c) == \E i \in 1..10 : Digits[i] = c
DigitVal(c) == (CHOOSE i \in 1..10 : Digits[i] = c) - 1

\* int(s) of a digit string; -1 when s is empty or holds a non-digit.
RECURSIVE ToInt(_)
ToInt(s) ==
  IF s = <<>> \/ \E i \in 1..Len(s) : ~IsDigit(s[i]) THEN -1
  ELSE IF Len(s) = 1 THEN DigitVal(s[1])
  ELSE 10 * ToInt(SubSeq(s, 1, Len(s)-1)) + DigitVal(s[Len(s)])

\* str.lower() on one character.
Lower(c) ==
  IF \E i \in 1..26 : UpperAlpha[i] = c
  THEN LowerAlpha[CHOOSE i \in 1..26 : UpperAlpha[i] = c]
  ELSE c

\* A project name as the tooling compares it: case-insensitively.
NormalizeName(s) == [i \in 1..Len(s) |-> Lower(s[i])]

(***************************************************************************)
(* The descriptor: the keyword arguments of the setup() call               *)
(***************************************************************************)
name == <<"d", "y", "m", "s", "_", "l", "e", "x", "e", "r">>
\* Mutant: the version keyword left empty.
version_unset == <<>>
version == <<"0", ".", "2", ".", "0">>
description == "Pygments lexer for DYMS programming language"
author == "Dev-Dami"

\* The directory the descriptor stands in, as find_packages() sees it: each
\* file path (a sequence of names) with the top-level symbols it defines.
\* The directory holds the descriptor and nothing else.
SetupPy == <<"s", "e", "t", "u", "p", ".", "p", "y">>
InitPy == <<"_", "_", "i", "n", "i", "t", "_", "_", ".", "p", "y">>
RepoTree == [p \in {<<SetupPy>>} |-> {}]

\* The directories of a tree: the proper non-empty prefixes of its paths.
DirsOf(tree) ==
  UNION {{SubSeq(p, 1, k) : k \in 1..(Len(p) - 1)} : p \in DOMAIN tree}

\* setuptools.find_packages(): the dotted names of the directories that hold
\* an __init__.py and whose parents all do.
find_packages(tree) ==
  {Join(d, ".") : d \in {d \in DirsOf(tree) :
       \A k \in 1..Len(d) : Append(SubSeq(d, 1, k), InitPy) \in DOMAIN tree}}

\* Mutant: a second requirement beside the host framework.
install_requires_extra ==
  << <<"P", "y", "g", "m", "e", "n", "t", "s", ">", "=", "2", ".", "0">>,
     <<"s", "i", "x">> >>
\* Mutant: the host pinned to one release instead of bounded from below.
install_requires_exact ==
  << <<"P", "y", "g", "m", "e", "n", "t", "s", "=", "=", "2", ".", "0">> >>
install_requires ==
  << <<"P", "y", "g", "m", "e", "n", "t", "s", ">", "=", "2", ".", "0">> >>

\* Mutant: a second name registered in the group.
entry_points_two ==
  [g \in {<<"p", "y", "g", "m", "e", "n", "t", "s", ".",
            "l", "e", "x", "e", "r", "s">>} |->
     << <<"d", "y", "m", "s", " ", "=", " ",
          "d", "y", "m", "s", "_", "l", "e", "x", "e", "r", ":",
          "D", "y", "m", "s", "L", "e", "x", "e", "r">>,
        <<"D", "Y", "M", "S", " ", "=", " ",
          "d", "y", "m", "s", "_", "l", "e", "x", "e", "r", ":",
          "D", "y", "m", "s", "L", "e", "x", "e", "r">> >>]
\* Mutant: the target names module 'dyms' instead of 'dyms_lexer'.
entry_points_wrong_module ==
  [g \in {<<"p", "y", "g", "m", "e", "n", "t", "s", ".",
            "l", "e", "x", "e", "r", "s">>} |->
     << <<"d", "y", "m", "s", " ", "=", " ", "d", "y", "m", "s", ":",
          "D", "y", "m", "s", "L", "e", "x", "e", "r">> >>]
\* Mutant: the line lacks its '=' between name and target.
entry_points_malformed ==
  [g \in {<<"p", "y", "g", "m", "e", "n", "t", "s", ".",
            "l", "e", "x", "e", "r", "s">>} |->
     << <<"d", "y", "m", "s", " ",
          "d", "y", "m", "s", "_", "l", "e", "x", "e", "r", ":",
          "D", "y", "m", "s", "L", "e", "x", "e", "r">> >>]
entry_points ==
  [g \in {<<"p", "y", "g", "m", "e", "n", "t", "s", ".",
            "l", "e", "x", "e", "r", "s">>} |->
     << <<"d", "y", "m", "s", " ", "=", " ",
          "d", "y", "m", "s", "_", "l", "e", "x", "e", "r", ":",
          "D", "y", "m", "s", "L", "e", "x", "e", "r">> >>]

classifiers ==
  << "Development Status :: 4 - Beta",
     "Environment :: Plugins",
     "Intended Audience :: Developers",
     "License :: OSI Approved :: MIT License",
     "Operating System :: OS Independent",
     "Programming Language :: Python",
     "Programming Language :: Python :: 3",
     "Topic :: Software Development :: Libraries :: Python Modules",
     "Topic :: Text Processing :: Filters" >>

\* The keyword arguments the descriptor passes to setup().
SetupKwargs ==
  [ name             |-> name,
    version          |-> version,
    description      |-> description,
    author           |-> author,
    packages         |-> find_packages(RepoTree),
    install_requires |-> install_requires,
    entry_points     |-> entry_points,
    classifiers      |-> classifiers ]

(***************************************************************************)
(* How the tooling reads the descriptor's texts                            *)
(***************************************************************************)
\* A version text "2.0" as its release numbers <<2, 0>>.
ParseVersion(s) ==
  LET parts == SplitOn(Strip(s), ".")
  IN [i \in 1..Len(parts) |-> ToInt(parts[i])]

IsVersion(v) == Len(v) >= 1 /\ \A i \in 1..Len(v) : v[i] >= 0

\* Release numbers compare position by position, a missing one counting 0:
\* -1, 0 or 1 as a is older than, equal to or newer than b.
Rel(v, i) == IF i <= Len(v) THEN v[i] ELSE 0
CmpVersion(a, b) ==
  LET n == IF Len(a) >= Len(b) THEN Len(a) ELSE Len(b)
      diff == {i \in 1..n : Rel(a, i) # Rel(b, i)}
  IN IF diff = {} THEN 0
     ELSE LET i == CHOOSE i \in diff : \A j \in diff : i <= j
          IN IF Rel(a, i) < Rel(b, i) THEN -1 ELSE 1

\* One version specifier ">=2.0": its comparison operator and its version.
ParseSpecifier(s) ==
  LET t == Strip(s)
      k == IF \E i \in 1..Len(t) : t[i] \notin OpChars
           THEN (CHOOSE i \in 1..Len(t) :
                    t[i] \notin OpChars /\ \A j \in 1..(i-1) : t[j] \in OpChars) - 1
           ELSE Len(t)
  IN [op |-> SubSeq(t, 1, k), version |-> ParseVersion(SubSeq(t, k+1, Len(t)))]

\* A requirement "Pygments>=2.0": the project name and its specifiers.
ParseRequirement(s) ==
  LET i == IndexOfAny(s, OpChars)
      nm == IF i = 0 THEN s ELSE SubSeq(s, 1, i-1)
      rest == IF i = 0 THEN <<>> ELSE SubSeq(s, i, Len(s))
      parts == IF rest = <<>> THEN <<>> ELSE SplitOn(rest, ",")
  IN [name |-> Strip(nm),
      specs |-> {ParseSpecifier(parts[j]) : j \in 1..Len(parts)}]

KnownOps == {<<">", "=">>, <<"<", "=">>, <<"=", "=">>, <<"!", "=">>, <<">">>, <<"<">>}

IsRequirement(s) ==
  LET r == ParseRequirement(s)
  IN /\ r.name # <<>>
     /\ \A i \in 1..Len(r.name) : r.name[i] \notin OpChars \cup {" ", ","}
     /\ \A sp \in r.specs : sp.op \in KnownOps /\ IsVersion(sp.version)

\* Whether release v is admitted by one specifier.
Satisfies(v, sp) ==
  LET c == CmpVersion(v, sp.version)
  IN CASE sp.op = <<">", "=">> -> c >= 0
       [] sp.op = <<"<", "=">> -> c <= 0
       [] sp.op = <<"=", "=">> -> c = 0
       [] sp.op = <<"!", "=">> -> c # 0
       [] sp.op = <<">">>      -> c > 0
       [] sp.op = <<"<">>      -> c < 0
       [] OTHER                -> FALSE

\* Whether release v is admitted by every specifier of a parsed requirement.
Admits(req, v) == \A sp \in req.specs : Satisfies(v, sp)

\* An entry-point line "name = module:attr".
ParseEntryPoint(s) ==
  LET e == IndexOfAny(s, {"="})
      value == IF e = 0 THEN <<>> ELSE SubSeq(s, e+1, Len(s))
      c == IndexOfAny(value, {":"})
  IN [name   |-> IF e = 0 THEN <<>> ELSE Strip(SubSeq(s, 1, e-1)),
      module |-> IF c = 0 THEN Strip(value) ELSE Strip(SubSeq(value, 1, c-1)),
      attr   |-> IF c = 0 THEN <<>> ELSE Strip(SubSeq(value, c+1, Len(value)))]

IsIdentifierText(s) ==
  s # <<>> /\ \A i \in 1..Len(s) : s[i] \notin {" ", "=", ":", ","}

IsEntryPoint(s) ==
  LET ep == ParseEntryPoint(s)
  IN IsIdentifierText(ep.name) /\ IsIdentifierText(ep.module)
       /\ IsIdentifierText(ep.attr)

\* The entry points a distribution registers: every line of every group.
EntryPointsOf(kw) ==
  UNION {{[group |-> g, ep |-> ParseEntryPoint(kw.entry_points[g][i])] :
             i \in 1..Len(kw.entry_points[g])} : g \in DOMAIN kw.entry_points}

(***************************************************************************)
(* The environment the descriptor is read in                               *)
(***************************************************************************)
\* The host framework: its project name on the index and the entry-point
\* group its plugin discovery reads lexers from.
HostProject == <<"P", "y", "g", "m", "e", "n", "t", "s">>
HostLexerGroup ==
  <<"p", "y", "g", "m", "e", "n", "t", "s", ".", "l", "e", "x", "e", "r", "s">>

\* The releases of the host framework a package index may offer.
Versions == {<<a, b>> : a \in 1..MaxMajor, b \in 0..MaxMinor}

\* What other distributions of the environment may require of the host.
HostBelowTwo ==
  <<"P", "y", "g", "m", "e", "n", "t", "s", "<", "2", ".", "0">>
OtherConstraints == {{}, {HostBelowTwo}}

\* The module name the environment may hold, and the attribute a lexer
\* module exports.
DymsLexerModule == <<"d", "y", "m", "s", "_", "l", "e", "x", "e", "r">>
DymsLexerAttr == <<"D", "y", "m", "s", "L", "e", "x", "e", "r">>
ModuleNames == {DymsLexerModule}
Absent == [present |-> FALSE, attrs |-> {}]

\* Language identifiers a reader may ask the host for.
Dyms == <<"d", "y", "m", "s">>
Idents == {Dyms, <<"D", "Y", "M", "S">>}

\* The two readers of the registry.
Readers == {"r1", "r2"}
NoResult == [ident |-> <<>>, outcome |-> "none", target |-> <<>>]

VARIABLES
  pc,        \* where the execution of the descriptor stands
  calls,     \* the setup() calls made so far, each its keyword arguments
  index,     \* the host releases the package index offers
  others,    \* requirements other distributions put on the host
  status,    \* outcome of installing the distribution
  pygments,  \* the installed release of the host: empty or one release
  modules,   \* site-packages: per module name, whether present and its exports
  result     \* per reader, the outcome of its last lookup

vars == <<pc, calls, index, others, status, pygments, modules, result>>

Init ==
  /\ pc = "import"
  /\ calls = <<>>
  /\ index \in SUBSET Versions
  /\ others \in OtherConstraints
  /\ status = "none"
  /\ pygments = {}
  /\ modules = [m \in ModuleNames |-> Absent]
  /\ result = [r \in Readers |-> NoResult]

\* Line 1: from setuptools import setup, find_packages
Import ==
  /\ pc = "import"
  /\ pc' = "setup"
  /\ UNCHANGED <<calls, index, others, status, pygments, modules, result>>

\* Mutant: setup() is called a second time after the first.
Setup_again ==
  /\ pc \in {"setup", "end"}
  /\ Len(calls) < 2
  /\ calls' = Append(calls, SetupKwargs)
  /\ pc' = "end"
  /\ UNCHANGED <<index, others, status, pygments, modules, result>>

\* Mutant: the descriptor itself checks the index and reports a failure.
Setup_validating ==
  /\ pc = "setup"
  /\ calls' = Append(calls, SetupKwargs)
  /\ pc' = "end"
  /\ status' = IF index = {} THEN "NoMatchingDistribution" ELSE status
  /\ UNCHANGED <<index, others, pygments, modules, result>>

\* Lines 3-28: the single setup(...) call; the file ends after it.
Setup ==
  /\ pc = "setup"
  /\ calls' = Append(calls, SetupKwargs)
  /\ pc' = "end"
  /\ UNCHANGED <<index, others, status, pygments, modules, result>>

\* The newest release of a non-empty set.
Newest(vs) == CHOOSE v \in vs : \A w \in vs : CmpVersion(v, w) >= 0

\* The releases on the index that every text of reqs naming the host admits;
\* a requirement naming a project the index does not hold admits nothing.
Candidates(reqs, vs) ==
  LET parsed == {ParseRequirement(q) : q \in reqs}
      host == NormalizeName(HostProject)
  IN {v \in vs : \A q \in parsed :
         NormalizeName(q.name) = host /\ Admits(q, v)}

\* The modules a distribution ships: its packages, each exporting the
\* top-level symbols of its __init__.py.
Shipped(kw, tree, m) ==
  [present |-> TRUE, attrs |-> tree[Append(SplitOn(m, "."), InitPy)]]

\* The installer installs the distribution the descriptor declares: it
\* resolves the declared requirements against the index and the environment,
\* installs the newest admitted host release and copies the packages.
Install ==
  /\ pc = "end"
  /\ status = "none"
  /\ LET kw == calls[1]
         reqs == {kw.install_requires[i] : i \in 1..Len(kw.install_requires)}
         own == Candidates(reqs, index)
         all == Candidates(reqs \cup others, index)
     IN IF own = {}
        THEN /\ status' = "NoMatchingDistribution"
             /\ UNCHANGED <<pygments, modules>>
        ELSE IF all = {}
        THEN /\ status' = "ResolutionImpossible"
             /\ UNCHANGED <<pygments, modules>>
        ELSE /\ status' = "installed"
             /\ pygments' = {Newest(all)}
             /\ modules' = [m \in (DOMAIN modules) \cup kw.packages |->
                              IF m \in kw.packages
                              THEN Shipped(kw, RepoTree, m)
                              ELSE modules[m]]
  /\ UNCHANGED <<pc, calls, index, others, result>>

\* Something other than this distribution puts a module into site-packages.
PlaceModule(m, attrs) ==
  /\ modules[m] # [present |-> TRUE, attrs |-> attrs]
  /\ modules' = [modules EXCEPT ![m] = [present |-> TRUE, attrs |-> attrs]]
  /\ UNCHANGED <<pc, calls, index, others, status, pygments, result>>

\* ... or removes one.
RemoveModule(m) ==
  /\ modules[m].present
  /\ modules' = [modules EXCEPT ![m] = Absent]
  /\ UNCHANGED <<pc, calls, index, others, status, pygments, result>>

\* Loading an entry point: import its module, then fetch its attribute.
Load(ep, mods) ==
  IF ep.module \notin DOMAIN mods \/ ~mods[ep.module].present
  THEN "ImportError"
  ELSE IF ep.attr \notin mods[ep.module].attrs
  THEN "AttributeError"
  ELSE "class"

\* The host looks an identifier up among the lexer entry points of the
\* installed distributions and loads the one it finds.
Lookup(ident, eps, mods) ==
  LET hits == {e \in eps : e.group = HostLexerGroup /\ e.ep.name = ident}
  IN IF hits = {}
     THEN [ident |-> ident, outcome |-> "NotFound", target |-> <<>>]
     ELSE LET e == CHOOSE e \in hits : TRUE
          IN [ident |-> ident, outcome |-> Load(e.ep, mods),
              target |-> <<e.ep.module, e.ep.attr>>]

\* Reader r asks the installed host for the lexer of an identifier.
Resolve(r, ident) ==
  /\ pygments # {}
  /\ result' = [result EXCEPT ![r] =
                  Lookup(ident,
                         IF status = "installed" THEN EntryPointsOf(calls[1]) ELSE {},
                         modules)]
  /\ UNCHANGED <<pc, calls, index, others, status, pygments, modules>>

Next ==
  \/ Import
  \/ Setup
  \/ Install
  \/ \E m \in ModuleNames, attrs \in {{}, {DymsLexerAttr}} : PlaceModule(m, attrs)
  \/ \E m \in ModuleNames : RemoveModule(m)
  \/ \E r \in Readers, ident \in Idents : Resolve(r, ident)

Spec == Init /\ [][Next]_vars

(***************************************************************************)
(* Properties                                                              *)
(***************************************************************************)
Executed == pc = "end"
Failures == {"NoMatchingDistribution", "ResolutionImpossible",
             "ImportError", "AttributeError", "NotFound"}
TwoZero == <<2, 0>>
HasLexer(mods) ==
  mods[DymsLexerModule].present /\ DymsLexerAttr \in mods[DymsLexerModule].attrs

\* C1: the descriptor registers exactly one entry point: the only group is
\* 'pygments.lexers', it holds one line, whose name is 'dyms' and whose
\* target is DymsLexer of module dyms_lexer; a lookup of any identifier
\* other than 'dyms' finds nothing.
C1_OneEntryPoint ==
  Executed =>
    /\ DOMAIN calls[1].entry_points = {HostLexerGroup}
    /\ Len(calls[1].entry_points[HostLexerGroup]) = 1
    /\ EntryPointsOf(calls[1]) =
         {[group |-> HostLexerGroup,
           ep |-> [name |-> Dyms, module |-> DymsLexerModule,
                   attr |-> DymsLexerAttr]]}
    /\ \A r \in Readers :
         (result[r].outcome # "none" /\ result[r].ident # Dyms)
            => (result[r].outcome = "NotFound" /\ result[r].target = <<>>)

C1_Witness ==
  \E r1, r2 \in Readers :
     /\ result[r1].ident = Dyms /\ result[r1].outcome = "class"
     /\ result[r2].ident # Dyms /\ result[r2].outcome = "NotFound"

\* C2: the descriptor declares exactly one runtime dependency,
\* 'Pygments>=2.0', and the project it names is the host framework whose
\* entry-point group ('pygments.lexers') is the only group registered.
C2_OneDependencyIsHost ==
  Executed =>
    LET kw == calls[1]
        req == ParseRequirement(kw.install_requires[1])
    IN /\ Len(kw.install_requires) = 1
       /\ req.name = HostProject
       /\ req.specs = {[op |-> <<">", "=">>, version |-> TwoZero]}
       /\ \A g \in DOMAIN kw.entry_points :
            /\ g = HostLexerGroup
            /\ SplitOn(g, ".")[1] = NormalizeName(req.name)
       /\ DOMAIN kw.entry_points # {}

C2_Witness ==
  /\ status = "installed"
  /\ pygments # {}
  /\ \E r \in Readers : result[r].outcome = "class"

\* C3: whenever a reader resolves 'dyms' while a module dyms_lexer exporting
\* DymsLexer is installed, it obtains that class; whenever it resolves
\* 'dyms' while no module dyms_lexer is installed, it obtains no class.
C3_ResolvesOnceLexerExists ==
  [][\A r \in Readers :
       (result'[r] # result[r] /\ result'[r].ident = Dyms) =>
          /\ HasLexer(modules) =>
               /\ result'[r].outcome = "class"
               /\ result'[r].target = <<DymsLexerModule, DymsLexerAttr>>
          /\ ~modules[DymsLexerModule].present => result'[r].outcome # "class"]_vars

C3_Witness ==
  \E r1, r2 \in Readers :
     /\ result[r1].ident = Dyms /\ result[r1].outcome = "class"
     /\ result[r2].ident = Dyms /\ result[r2].outcome = "ImportError"

\* C4: the declared constraint is satisfiable: it admits exactly the
\* releases from 2.0 upwards, so an index offering any release >= 2.0 has a
\* candidate, and the installation then succeeds with such a release unless
\* another distribution's requirement forbids it.
C4_ConstraintSatisfiable ==
  Executed =>
    LET kw == calls[1]
        reqs == {kw.install_requires[i] : i \in 1..Len(kw.install_requires)}
        fresh == {v \in index : CmpVersion(v, TwoZero) >= 0}
    IN /\ Candidates(reqs, Versions) # {}
       /\ Candidates(reqs, index) = fresh
       /\ fresh # {} => status # "NoMatchingDistribution"
       /\ (fresh # {} /\ others = {} /\ status # "none") =>
             (status = "installed" /\ pygments = {Newest(fresh)})

C4_Witness ==
  /\ status = "installed"
  /\ pygments = {TwoZero}
  /\ \E v \in index : CmpVersion(v, TwoZero) < 0

\* C5 as stated: name 'dyms_lexer' and version '0.2.0' are declared, and
\* with description, author, dependency list, entry-point mapping and
\* classifiers they are the only fields declared.
C5_OnlySevenFields ==
  Executed =>
    /\ calls[1].name = <<"d", "y", "m", "s", "_", "l", "e", "x", "e", "r">>
    /\ calls[1].version = <<"0", ".", "2", ".", "0">>
    /\ DOMAIN calls[1] = {"name", "version", "description", "author",
                          "install_requires", "entry_points", "classifiers"}

\* C5 as amended: name 'dyms_lexer' and version '0.2.0' are declared, each
\* non-empty, and with description, author, the package list, dependency
\* list, entry-point mapping and classifiers they are the only fields
\* declared.
C5_NameVersionAndFields ==
  Executed =>
    /\ calls[1].name = <<"d", "y", "m", "s", "_", "l", "e", "x", "e", "r">>
    /\ calls[1].version = <<"0", ".", "2", ".", "0">>
    /\ Len(calls[1].name) > 0 /\ Len(calls[1].version) > 0
    /\ ParseVersion(calls[1].version) = <<0, 2, 0>>
    /\ DOMAIN calls[1] = {"name", "version", "description", "author",
                          "packages", "install_requires", "entry_points",
                          "classifiers"}

C5_Witness == Executed /\ Len(calls) = 1 /\ status = "installed"

\* C6: once the descriptor has been executed no step changes what it
\* declared, and any two resolutions of 'dyms', by one reader or by two,
\* name the same target.
C6_MetadataFrozen ==
  [][/\ Executed => calls' = calls
     /\ \A r1, r2 \in Readers :
          (result'[r1].ident = Dyms /\ result'[r2].ident = Dyms)
             => result'[r1].target = result'[r2].target
     /\ \A r \in Readers :
          (result[r].ident = Dyms /\ result'[r].ident = Dyms)
             => result'[r].target = result[r].target]_vars

C6_Witness ==
  /\ calls = <<SetupKwargs>>
  /\ status = "installed"
  /\ \E r1, r2 \in Readers :
       /\ r1 # r2
       /\ result[r1].ident = Dyms /\ result[r2].ident = Dyms
       /\ result[r1].outcome # result[r2].outcome
       /\ result[r1].target = result[r2].target

IsText(x) == x \in STRING /\ x # ""

C8_NoOwnErrorHandling ==
  [][/\ pc' # pc => (status' = status /\ result' = result)
     /\ ( \/ (status' # status /\ status' \in Failures)
          \/ \E r \in Readers :
               result'[r] # result[r] /\ result'[r].outcome \in Failures )
        => (Executed /\ pc' = pc /\ calls' = calls)]_vars

C8_Witness ==
  /\ calls = <<SetupKwargs>>
  /\ \/ status = "ResolutionImpossible"
     \/ \E r \in Readers : result[r].outcome = "ImportError"

\* C9: every module an entry point names is among the packages the
\* distribution ships.
C9_TargetsShipped ==
  Executed =>
    \A e \in EntryPointsOf(calls[1]) : e.ep.module \in calls[1].packages

====
